---- MODULE Spec2Model ----
(***************************************************************************)
(* Model of gpui's FontFeatures (crates/gpui/src/text_system/               *)
(* font_features.rs): the bit-packed value, its known-feature table, the   *)
(* map deserializer (visit_map), the tag_value_list projection and the     *)
(* map serializer.                                                         *)
(*                                                                         *)
(* Representation:                                                         *)
(*  - a Rust String / &str is the sequence of its chars (Unicode code      *)
(*    points); str::len() is the UTF-8 byte length, computed by Utf8Len;   *)
(*  - a u64 mask is the set of its set bit positions (a subset of 0..63);  *)
(*    `m |= 1 << idx` is m \cup {idx}, `m & (1 << idx) != 0` is idx \in m. *)
(*    Every idx of the table is below 64, so no shift overflows;           *)
(*  - Option<bool> is a sequence of length at most one: None is <<>> and   *)
(*    Some(b) is <<b>>.                                                    *)
(***************************************************************************)
EXTENDS Integers, Sequences, FiniteSets, TLC

\* Longest entry sequence a MapAccess delivers in the model.
MaxEntries == 3

None == <<>>
Some(b) == <<b>>

\* create_definitions!( (calt, 0), ..., (zero, 33) ): names in declaration order.
KnownFeatureTable == <<
    [name |-> <<99, 97, 108, 116>>, idx |-> 0],  \* (calt, 0)
    [name |-> <<99, 97, 115, 101>>, idx |-> 1],  \* (case, 1)
    [name |-> <<99, 112, 115, 112>>, idx |-> 2],  \* (cpsp, 2)
    [name |-> <<102, 114, 97, 99>>, idx |-> 3],  \* (frac, 3)
    [name |-> <<108, 105, 103, 97>>, idx |-> 4],  \* (liga, 4)
    [name |-> <<111, 110, 117, 109>>, idx |-> 5],  \* (onum, 5)
    [name |-> <<111, 114, 100, 110>>, idx |-> 6],  \* (ordn, 6)
    [name |-> <<112, 110, 117, 109>>, idx |-> 7],  \* (pnum, 7)
    [name |-> <<115, 115, 48, 49>>, idx |-> 8],  \* (ss01, 8)
    [name |-> <<115, 115, 48, 50>>, idx |-> 9],  \* (ss02, 9)
    [name |-> <<115, 115, 48, 51>>, idx |-> 10],  \* (ss03, 10)
    [name |-> <<115, 115, 48, 52>>, idx |-> 11],  \* (ss04, 11)
    [name |-> <<115, 115, 48, 53>>, idx |-> 12],  \* (ss05, 12)
    [name |-> <<115, 115, 48, 54>>, idx |-> 13],  \* (ss06, 13)
    [name |-> <<115, 115, 48, 55>>, idx |-> 14],  \* (ss07, 14)
    [name |-> <<115, 115, 48, 56>>, idx |-> 15],  \* (ss08, 15)
    [name |-> <<115, 115, 48, 57>>, idx |-> 16],  \* (ss09, 16)
    [name |-> <<115, 115, 49, 48>>, idx |-> 17],  \* (ss10, 17)
    [name |-> <<115, 115, 49, 49>>, idx |-> 18],  \* (ss11, 18)
    [name |-> <<115, 115, 49, 50>>, idx |-> 19],  \* (ss12, 19)
    [name |-> <<115, 115, 49, 51>>, idx |-> 20],  \* (ss13, 20)
    [name |-> <<115, 115, 49, 52>>, idx |-> 21],  \* (ss14, 21)
    [name |-> <<115, 115, 49, 53>>, idx |-> 22],  \* (ss15, 22)
    [name |-> <<115, 115, 49, 54>>, idx |-> 23],  \* (ss16, 23)
    [name |-> <<115, 115, 49, 55>>, idx |-> 24],  \* (ss17, 24)
    [name |-> <<115, 115, 49, 56>>, idx |-> 25],  \* (ss18, 25)
    [name |-> <<115, 115, 49, 57>>, idx |-> 26],  \* (ss19, 26)
    [name |-> <<115, 115, 50, 48>>, idx |-> 27],  \* (ss20, 27)
    [name |-> <<115, 117, 98, 115>>, idx |-> 28],  \* (subs, 28)
    [name |-> <<115, 117, 112, 115>>, idx |-> 29],  \* (sups, 29)
    [name |-> <<115, 119, 115, 104>>, idx |-> 30],  \* (swsh, 30)
    [name |-> <<116, 105, 116, 108>>, idx |-> 31],  \* (titl, 31)
    [name |-> <<116, 110, 117, 109>>, idx |-> 32],  \* (tnum, 32)
    [name |-> <<122, 101, 114, 111>>, idx |-> 33]   \* (zero, 33)
>>

\* ---- string helpers ----------------------------------------------------

\* Number of bytes of one char in UTF-8.
Utf8Len(c) == IF c < 128 THEN 1 ELSE IF c < 2048 THEN 2 ELSE IF c < 65536 THEN 3 ELSE 4

RECURSIVE bytes_from(_, _)
\* Number of bytes of the chars of s from position i on.
bytes_from(s, i) == IF i > Len(s) THEN 0 ELSE Utf8Len(s[i]) + bytes_from(s, i + 1)

\* str::len(): length in bytes.
len(s) == bytes_from(s, 1)

\* str::is_ascii()
is_ascii(s) == \A i \in 1..Len(s) : s[i] < 128

\* The smaller of two positions.
Min(a, b) == IF a < b THEN a ELSE b

\* s.chars().chunks(n), each chunk collected into a String: chunk j holds
\* the chars n*(j-1)+1 .. n*j, and the last chunk may be shorter than n.
chunks(s, n) ==
    [j \in 1..((Len(s) + n - 1) \div n) |-> SubSeq(s, n * (j - 1) + 1, Min(n * j, Len(s)))]

\* ---- the value type ----------------------------------------------------

\* #[derive(Default)] struct FontFeatures: the value before any entry.
FontFeatures == [enabled |-> {}, disabled |-> {},
                 other_enabled |-> <<>>, other_disabled |-> <<>>]

\* Variant of accessor that tests the disabled bit first.
accessor_disabled_first(self, idx) ==
    IF idx \in self.disabled THEN Some(FALSE)
    ELSE IF idx \in self.enabled THEN Some(TRUE)
    ELSE None

\* pub fn $name(&self) -> Option<bool>, for the feature with bit index idx.
accessor(self, idx) ==
    IF idx \in self.enabled THEN Some(TRUE)
    ELSE IF idx \in self.disabled THEN Some(FALSE)
    ELSE None

\* The $( ... )* block of tag_value_list: in table order, one (name, bool)
\* pair per known feature whose value is Some, true when the enabled bit is
\* set and false when only the disabled bit is.
known_pairs(self) ==
    LET value(row) == IF row.idx \in self.enabled THEN Some(TRUE)
                      ELSE IF row.idx \in self.disabled THEN Some(FALSE)
                      ELSE None
        is_some(row) == value(row) # None
        pushed == SelectSeq(KnownFeatureTable, is_some)
    IN  [j \in 1..Len(pushed) |-> [tag |-> pushed[j].name, enable |-> value(pushed[j])[1]]]

\* The pairs pushed by one `for name in buf.chars().chunks(4)` loop.
other_pairs(buf, b) ==
    LET names == chunks(buf, 4)
    IN  [i \in 1..Len(names) |-> [tag |-> names[i], enable |-> b]]

\* Variant of tag_value_list with the two unknown-tag loops swapped.
tag_value_list_disabled_first(self) ==
    known_pairs(self)
        \o other_pairs(self.other_disabled, FALSE)
        \o other_pairs(self.other_enabled, TRUE)

\* pub fn tag_value_list(&self) -> Vec<(String, bool)>
tag_value_list(self) ==
    known_pairs(self)
        \o other_pairs(self.other_enabled, TRUE)
        \o other_pairs(self.other_disabled, FALSE)

\* ---- deserialization ---------------------------------------------------

\* The arms `$(stringify!($name) => Some($idx),)*` of the match in visit_map:
\* the bit index of every known name.
known_idx ==
    [key \in {KnownFeatureTable[i].name : i \in 1..Len(KnownFeatureTable)} |->
        KnownFeatureTable[CHOOSE i \in 1..Len(KnownFeatureTable) :
                              KnownFeatureTable[i].name = key].idx]

\* Variant of match_key without the is_ascii() test.
match_key_no_ascii_check(key) ==
    IF key \in DOMAIN known_idx THEN Some(known_idx[key])
    ELSE IF len(key) # 4 THEN "continue" ELSE None

\* Variant of match_key that rejects only keys longer than 4 bytes.
match_key_short_ok(key) ==
    IF key \in DOMAIN known_idx THEN Some(known_idx[key])
    ELSE IF len(key) > 4 \/ ~is_ascii(key) THEN "continue" ELSE None

\* The `match key.as_str()` of visit_map: Some(idx) for a known name, None
\* for an accepted unknown tag, "continue" for a rejected key.
match_key(key) ==
    IF key \in DOMAIN known_idx THEN Some(known_idx[key])
    ELSE IF len(key) # 4 \/ ~is_ascii(key) THEN "continue" ELSE None

\* Variant of next_entry in which a known key clears the opposite mask.
next_entry_last_write_wins(acc, key, value) ==
    LET idx == match_key(key) IN
    IF idx = "continue" THEN acc
    ELSE IF idx # None THEN
        IF value = Some(TRUE)
            THEN [acc EXCEPT !.enabled = @ \cup {idx[1]}, !.disabled = @ \ {idx[1]}]
        ELSE IF value = Some(FALSE)
            THEN [acc EXCEPT !.disabled = @ \cup {idx[1]}, !.enabled = @ \ {idx[1]}]
        ELSE acc
    ELSE
        IF value = Some(TRUE) THEN [acc EXCEPT !.other_enabled = @ \o key]
        ELSE IF value = Some(FALSE) THEN [acc EXCEPT !.other_disabled = @ \o key]
        ELSE acc

\* Variant of next_entry that treats a None value as Some(false).
next_entry_none_is_false(acc, key, value) ==
    LET idx == match_key(key) IN
    IF idx = "continue" THEN acc
    ELSE IF idx # None THEN
        IF value = Some(TRUE) THEN [acc EXCEPT !.enabled = @ \cup {idx[1]}]
        ELSE [acc EXCEPT !.disabled = @ \cup {idx[1]}]
    ELSE
        IF value = Some(TRUE) THEN [acc EXCEPT !.other_enabled = @ \o key]
        ELSE [acc EXCEPT !.other_disabled = @ \o key]

\* One iteration of the `while let Some((key, value))` loop of visit_map on
\* the accumulators acc.
next_entry(acc, key, value) ==
    LET idx == match_key(key) IN
    IF idx = "continue" THEN acc
    ELSE IF idx # None THEN
        IF value = Some(TRUE) THEN [acc EXCEPT !.enabled = @ \cup {idx[1]}]
        ELSE IF value = Some(FALSE) THEN [acc EXCEPT !.disabled = @ \cup {idx[1]}]
        ELSE acc
    ELSE
        IF value = Some(TRUE) THEN [acc EXCEPT !.other_enabled = @ \o key]
        ELSE IF value = Some(FALSE) THEN [acc EXCEPT !.other_disabled = @ \o key]
        ELSE acc

RECURSIVE visit_loop(_, _, _)
\* The while loop of visit_map over the entries the MapAccess delivers,
\* from the i-th entry on.
visit_loop(acc, entries, i) ==
    IF i > Len(entries) THEN acc
    ELSE visit_loop(next_entry(acc, entries[i].key, entries[i].value), entries, i + 1)

\* FontFeaturesVisitor::visit_map: the accumulators start at 0 / "", and the
\* final `if is_empty() { "".into() } else { s.into() }` keeps the text.
visit_map(entries) ==
    LET acc == visit_loop([enabled |-> {}, disabled |-> {},
                           other_enabled |-> <<>>, other_disabled |-> <<>>],
                          entries, 1)
    IN  [enabled |-> acc.enabled, disabled |-> acc.disabled,
         other_enabled |-> IF acc.other_enabled = <<>> THEN <<>> ELSE acc.other_enabled,
         other_disabled |-> IF acc.other_disabled = <<>> THEN <<>> ELSE acc.other_disabled]

\* ---- serialization -----------------------------------------------------

\* The $( ... )* block of serialize: in table order, one entry per known
\* feature whose accessor is Some.
known_entries(self) ==
    LET is_some(row) == accessor(self, row.idx) # None
        written == SelectSeq(KnownFeatureTable, is_some)
    IN  [j \in 1..Len(written) |->
            [key |-> written[j].name, value |-> accessor(self, written[j].idx)[1]]]

\* The entries written by one `for name in buf.chars().chunks(4)` loop.
other_entries(buf, b) ==
    LET names == chunks(buf, 4)
    IN  [i \in 1..Len(names) |-> [key |-> names[i], value |-> b]]

\* Variant of serialize without the cfg(target_os) gate.
serialize_ungated(self, os) ==
    known_entries(self)
        \o other_entries(self.other_enabled, TRUE)
        \o other_entries(self.other_disabled, FALSE)

\* impl serde::Serialize for FontFeatures, compiled for target_os = os: the
\* entries handed to the SerializeMap, in order.
serialize(self, os) ==
    known_entries(self)
        \o (IF os = "windows"
               THEN other_entries(self.other_enabled, TRUE)
                        \o other_entries(self.other_disabled, FALSE)
               ELSE <<>>)

\* Reading a serialized map back: every emitted bool b is read as the
\* Option<bool> Some(b) by next_entry::<String, Option<bool>>().
read_back(out) == [i \in 1..Len(out) |-> [key |-> out[i].key, value |-> Some(out[i].value)]]

\* ---- inputs ------------------------------------------------------------

calt == <<99, 97, 108, 116>>
liga == <<108, 105, 103, 97>>
abcd == <<97, 98, 99, 100>>
efgh == <<101, 102, 103, 104>>
\* "ab": too short.
ab == <<97, 98>>
\* "toolong1234": too long.
toolong1234 == <<116, 111, 111, 108, 111, 110, 103, 49, 50, 51, 52>>
\* Two U+00E9: 2 chars, 4 bytes, not ASCII.
ee == <<233, 233>>

Keys == {calt, liga, abcd, efgh, ab, toolong1234, ee}
Values == {None, Some(TRUE), Some(FALSE)}
Entries == [key : Keys, value : Values]
EntrySeqs == UNION {[1..n -> Entries] : n \in 0..MaxEntries}
TargetOs == {"windows", "linux"}

\* ---- the state machine -------------------------------------------------

VARIABLES
    pc,         \* "map": not yet deserialized; "value"; "projected"; "serialized"; "reloaded"
    target_os,  \* the cfg(target_os) serialize was compiled for; "unset" before
    input,      \* the entries the MapAccess delivers, in delivery order
    features,   \* the FontFeatures value
    list,       \* result of tag_value_list
    output,     \* entries written by serialize
    reloaded    \* the value deserialized from output

vars == <<pc, target_os, input, features, list, output, reloaded>>

Init ==
    /\ pc = "map"
    /\ target_os = "unset"
    /\ input \in EntrySeqs
    /\ features = FontFeatures
    /\ list = <<>>
    /\ output = <<>>
    /\ reloaded = FontFeatures

\* FontFeatures::deserialize on the input map.
Deserialize ==
    /\ pc = "map"
    /\ features' = visit_map(input)
    /\ pc' = "value"
    /\ UNCHANGED <<target_os, input, list, output, reloaded>>

\* tag_value_list on the value.
TagValueList ==
    /\ pc = "value"
    /\ list' = tag_value_list(features)
    /\ pc' = "projected"
    /\ UNCHANGED <<target_os, input, features, output, reloaded>>

\* serialize on the value, in a build for target os: &self, the value is
\* left as it is.
Serialize(os) ==
    /\ pc = "value"
    /\ target_os' = os
    /\ output' = serialize(features, os)
    /\ pc' = "serialized"
    /\ UNCHANGED <<input, features, list, reloaded>>

\* Deserializing the serialized entries in emission order.
Reload ==
    /\ pc = "serialized"
    /\ reloaded' = visit_map(read_back(output))
    /\ pc' = "reloaded"
    /\ UNCHANGED <<target_os, input, features, list, output>>

Next ==
    \/ Deserialize
    \/ TagValueList
    \/ \E os \in TargetOs : Serialize(os)
    \/ Reload

Spec == Init /\ [][Next]_vars

\* The same operations on the inputs used for the reordering properties:
\* two known names, two unknown tags and one rejected key.
ReorderKeys == {calt, liga, abcd, efgh, ab}
ReorderSeqs == UNION {[1..n -> [key : ReorderKeys, value : Values]] : n \in 0..MaxEntries}

InitReorder ==
    /\ pc = "map"
    /\ target_os = "unset"
    /\ input \in ReorderSeqs
    /\ features = FontFeatures
    /\ list = <<>>
    /\ output = <<>>
    /\ reloaded = FontFeatures

SpecReorder == InitReorder /\ [][Next]_vars

\* ---- vocabulary of the properties --------------------------------------

Rows == 1..Len(KnownFeatureTable)
\* The table position of every known name.
RowOf == [name \in {KnownFeatureTable[i].name : i \in Rows} |->
              CHOOSE i \in Rows : KnownFeatureTable[i].name = name]
KnownNames == {KnownFeatureTable[i].name : i \in Rows}
IsKnownName(key) == key \in KnownNames
\* A well-formed unknown tag: not a known name, exactly 4 bytes, all ASCII.
IsUnknownTag(key) ==
    /\ ~IsKnownName(key)
    /\ Len(key) = 4
    /\ \A i \in 1..Len(key) : key[i] \in 0..127
IsWellFormed(key) == IsKnownName(key) \/ IsUnknownTag(key)
IsMalformed(key) == ~IsWellFormed(key)

KeepWellFormed(e) == IsWellFormed(e.key)
KeepNonNull(e) == e.value # None
UnknownTrue(e) == IsUnknownTag(e.key) /\ e.value = Some(TRUE)
UnknownFalse(e) == IsUnknownTag(e.key) /\ e.value = Some(FALSE)

KeysOf(es) == [i \in 1..Len(es) |-> es[i].key]
\* The j-th group of 4 chars of a buffer, by position.
Group(buf, j) == [i \in 1..4 |-> buf[4 * (j - 1) + i]]
Occurrences(seq, x) == Cardinality({i \in 1..Len(seq) : seq[i] = x})
Range(seq) == {seq[i] : i \in 1..Len(seq)}
\* The reordering of a sequence of entries by a permutation f of its positions.
Reorder(es, f) == [i \in 1..Len(es) |-> es[f[i]]]
\* The values delivered for a key, as a set.
Delivered(es, key) == {es[i].value : i \in {j \in 1..Len(es) : es[j].key = key}}
Deserialized == pc # "map"

\* ---- C1 ----------------------------------------------------------------

\* C1: for every value produced by deserializing any sequence of entries
\* (duplicate keys included), no bit position is set in both masks:
\* enabled & disabled == 0.
C1_TriStateExclusive ==
    Deserialized => features.enabled \cap features.disabled = {}

\* ---- C2 ----------------------------------------------------------------

\* C2: a value deserialized from entries with well-formed keys only, then
\* serialized on Windows and deserialized again from the emitted entries,
\* equals the original value in all four fields.
C2_RoundTrip ==
    (/\ pc = "reloaded"
     /\ target_os = "windows"
     /\ \A i \in 1..Len(input) : IsWellFormed(input[i].key))
    => reloaded = features

\* ---- C3 ----------------------------------------------------------------

\* C3 as stated: any two entry sequences that are permutations of one
\* another deserialize to values equal in all four fields.
C3_PermutationEqual ==
    pc = "value" =>
        \A f \in Permutations(1..Len(input)) : visit_map(Reorder(input, f)) = features

\* C3 amended: permutations of one another always deserialize to equal
\* enabled and disabled masks; the values are equal in all four fields when
\* the two sequences also deliver their well-formed unknown-tag entries with
\* value true in the same relative order, and likewise those with value
\* false.
C3_PermutationMasksEqual ==
    pc = "value" =>
        \A f \in Permutations(1..Len(input)) :
            \A p \in {Reorder(input, f)} :
                \A v \in {visit_map(p)} :
                    /\ v.enabled = features.enabled
                    /\ v.disabled = features.disabled
                    /\ \/ v = features
                       \/ SelectSeq(p, UnknownTrue) # SelectSeq(input, UnknownTrue)
                       \/ SelectSeq(p, UnknownFalse) # SelectSeq(input, UnknownFalse)

\* A value built from a known key delivered with both booleans and an
\* unknown tag: its input has reorderings that differ from it.
C3_Witness ==
    /\ pc = "value"
    /\ features.enabled \cap features.disabled # {}
    /\ features.other_enabled # <<>>
    /\ \E f \in Permutations(1..Len(input)) :
          /\ Reorder(input, f) # input
          /\ SelectSeq(Reorder(input, f), UnknownTrue) = SelectSeq(input, UnknownTrue)

\* ---- C4 ----------------------------------------------------------------

\* C4: after deserializing, each unknown tag occurs in at most one of
\* other_enabled / other_disabled and at most once there, and the last
\* non-null value delivered for it decides which buffer holds it.
C4_UnknownTagOnce ==
    Deserialized =>
        \A k \in Range(KeysOf(input)) :
            IsUnknownTag(k) =>
                LET en == Occurrences(chunks(features.other_enabled, 4), k)
                    dis == Occurrences(chunks(features.other_disabled, 4), k)
                    nonnull == {i \in 1..Len(input) :
                                   input[i].key = k /\ input[i].value # None}
                    last == CHOOSE i \in nonnull : \A j \in nonnull : j <= i
                IN  /\ en + dis <= 1
                    /\ nonnull # {} =>
                          IF input[last].value = Some(TRUE)
                              THEN en = 1 /\ dis = 0
                              ELSE en = 0 /\ dis = 1

\* ---- C5 ----------------------------------------------------------------

\* C5: entries whose key is neither a known name nor 4 bytes of ASCII are
\* dropped: the value equals the one deserialized from the same sequence
\* without those entries; {"toolong1234": true, "ab": false, "liga": true}
\* gives only liga set and both unknown-tag buffers empty.
C5_MalformedDropped ==
    pc = "value" =>
        /\ features = visit_map(SelectSeq(input, KeepWellFormed))
        /\ (\A i \in 1..Len(input) :
                IsMalformed(input[i].key) \/ (input[i].key = liga /\ input[i].value = Some(TRUE)))
           => /\ features.enabled \subseteq {4}
              /\ features.disabled = {}
              /\ features.other_enabled = <<>>
              /\ features.other_disabled = <<>>

C5_Witness ==
    /\ pc = "value"
    /\ input = <<[key |-> toolong1234, value |-> Some(TRUE)],
                 [key |-> ab, value |-> Some(FALSE)],
                 [key |-> liga, value |-> Some(TRUE)]>>
    /\ features = [enabled |-> {4}, disabled |-> {},
                   other_enabled |-> <<>>, other_disabled |-> <<>>]

\* ---- C6 ----------------------------------------------------------------

\* C6: a null value changes none of the four fields: the value equals the
\* one deserialized from the sequence without its null-valued entries, and
\* when every entry is null it equals the value built from {} and the liga
\* accessor returns unspecified.
C6_NullNoOp ==
    pc = "value" =>
        /\ features = visit_map(SelectSeq(input, KeepNonNull))
        /\ (\A i \in 1..Len(input) : input[i].value = None)
           => features = visit_map(<<>>) /\ accessor(features, 4) = None

C6_Witness ==
    /\ pc = "value"
    /\ Len(input) = 3
    /\ input[1] = [key |-> liga, value |-> None]
    /\ input[2] = [key |-> abcd, value |-> None]
    /\ input[3].value # None
    /\ IsWellFormed(input[3].key)

\* ---- C7 ----------------------------------------------------------------

\* C7: tag_value_list lists first the specified known features in table
\* order, then the unknown tags delivered with true in delivery order, then
\* the unknown tags delivered with false in delivery order, each unknown
\* tag being exactly the key supplied.
C7_ProjectionOrder ==
    pc = "projected" =>
        LET specified == {i \in Rows : \E b \in BOOLEAN :
                             Some(b) \in Delivered(input, KnownFeatureTable[i].name)}
            nk == Cardinality(specified)
            ts == KeysOf(SelectSeq(input, UnknownTrue))
            fs == KeysOf(SelectSeq(input, UnknownFalse))
            row(j) == RowOf[list[j].tag]
        IN  /\ Len(list) = nk + Len(ts) + Len(fs)
            /\ \A j \in 1..nk : IsKnownName(list[j].tag) /\ row(j) \in specified
            /\ \A j1, j2 \in 1..nk : j1 < j2 => row(j1) < row(j2)
            /\ \A j \in 1..Len(ts) : list[nk + j] = [tag |-> ts[j], enable |-> TRUE]
            /\ \A j \in 1..Len(fs) :
                   list[nk + Len(ts) + j] = [tag |-> fs[j], enable |-> FALSE]

\* Known keys delivered against table order, around unknown tags of both values.
C7_Witness ==
    /\ pc = "projected"
    /\ \E i, j \in 1..Len(input) :
          i < j /\ input[i] = [key |-> efgh, value |-> Some(FALSE)]
                /\ input[j] = [key |-> abcd, value |-> Some(TRUE)]
    /\ \E i \in 1..Len(input) : IsKnownName(input[i].key) /\ input[i].value # None
    /\ Len(list) = 3

\* ---- C8 ----------------------------------------------------------------

\* C8: serialize emits exactly one entry per known feature whose accessor
\* is not unspecified, in table order, with the accessor's boolean; the
\* unknown tags (other_enabled with true, then other_disabled with false,
\* in buffer order) follow if and only if the target is Windows; the value
\* itself is unchanged.
C8_SerializationPolicy ==
    pc = "serialized" =>
        LET specified == {i \in Rows : accessor(features, KnownFeatureTable[i].idx) # None}
            nk == Cardinality(specified)
            ne == Len(features.other_enabled) \div 4
            nd == Len(features.other_disabled) \div 4
            row(j) == RowOf[output[j].key]
        IN  /\ features = visit_map(input)
            /\ Len(output) = nk + (IF target_os = "windows" THEN ne + nd ELSE 0)
            /\ \A j \in 1..nk :
                   /\ IsKnownName(output[j].key)
                   /\ Some(output[j].value) = accessor(features, KnownFeatureTable[row(j)].idx)
            /\ \A j1, j2 \in 1..nk : j1 < j2 => row(j1) < row(j2)
            /\ target_os = "windows" =>
                   /\ \A j \in 1..ne : output[nk + j] =
                          [key |-> Group(features.other_enabled, j), value |-> TRUE]
                   /\ \A j \in 1..nd : output[nk + ne + j] =
                          [key |-> Group(features.other_disabled, j), value |-> FALSE]

\* Serialized off Windows with a known feature and unknown tags held in memory.
C8_Witness ==
    /\ pc = "serialized"
    /\ target_os = "linux"
    /\ features.other_enabled # <<>>
    /\ features.other_disabled # <<>>
    /\ Len(output) = 1

\* ---- C9 ----------------------------------------------------------------

\* C9: after deserializing any entries, the lengths of other_enabled and
\* other_disabled are multiples of 4 and every group of 4 chars is an ASCII
\* key supplied with the matching boolean; malformed keys contribute nothing.
C9_BuffersWellFormed ==
    Deserialized =>
        /\ Len(features.other_enabled) = 4 * Len(SelectSeq(input, UnknownTrue))
        /\ Len(features.other_disabled) = 4 * Len(SelectSeq(input, UnknownFalse))
        /\ len(features.other_enabled) % 4 = 0
        /\ len(features.other_disabled) % 4 = 0
        /\ \A j \in 1..(Len(features.other_enabled) \div 4) :
               LET g == Group(features.other_enabled, j)
               IN  IsUnknownTag(g) /\ Some(TRUE) \in Delivered(input, g)
        /\ \A j \in 1..(Len(features.other_disabled) \div 4) :
               LET g == Group(features.other_disabled, j)
               IN  IsUnknownTag(g) /\ Some(FALSE) \in Delivered(input, g)

\* A 4-byte non-ASCII key and a short key delivered next to a real tag.
C9_Witness ==
    /\ pc = "value"
    /\ Some(TRUE) \in Delivered(input, ee)
    /\ Some(TRUE) \in Delivered(input, abcd)
    /\ Delivered(input, ab) # {}
    /\ features.other_enabled = abcd

\* ---- C10 ---------------------------------------------------------------

\* C10: the accessor of a known feature returns true if some delivered
\* entry with that key is true, otherwise false if some is false, otherwise
\* unspecified, whatever the order and repetition; tag_value_list contains
\* (name, b) exactly when the accessor returns b.
C10_EnabledPrecedence ==
    pc = "projected" =>
        LET pairs == Range(list) IN
        \A i \in Rows :
            LET name == KnownFeatureTable[i].name
                got == accessor(features, KnownFeatureTable[i].idx)
                given == Delivered(input, name)
            IN  /\ got = (IF Some(TRUE) \in given THEN Some(TRUE)
                          ELSE IF Some(FALSE) \in given THEN Some(FALSE)
                          ELSE None)
                /\ \A b \in BOOLEAN :
                       [tag |-> name, enable |-> b] \in pairs <=> got = Some(b)

\* liga delivered true and then false.
C10_Witness ==
    /\ pc = "projected"
    /\ \E i, j \in 1..Len(input) :
          i < j /\ input[i] = [key |-> liga, value |-> Some(TRUE)]
                /\ input[j] = [key |-> liga, value |-> Some(FALSE)]
    /\ [tag |-> liga, enable |-> TRUE] \in Range(list)

====
